---------------------------- MODULE Spec2Model ----------------------------
(***************************************************************************)
(* A model of the passguard package (src/passguard/__init__.py):           *)
(* check_breach, check_email_breach, score_strength and generate_password, *)
(* and of the check and email commands of its command line                 *)
(* (src/passguard/cli.py).                                                 *)
(*                                                                         *)
(* Python strings are TLA+ strings; Len, SubSeq and \o act on them         *)
(* character by character.  A JSON value that may be null is a record      *)
(* [t, v] with t in {"str", "null", "missing"}.                            *)
(***************************************************************************)
EXTENDS Integers, Sequences, FiniteSets, TLC

VARIABLES
    cb_pc,          \* check_breach: "idle", "lookup", "returned", "raised"
    cb_password,    \* check_breach: its argument
    cb_sent,        \* every URL check_breach passed to requests.get, in order
    cb_lookup,      \* what the range lookup did: [kind, lines]
    cb_result,      \* check_breach: the returned count (when cb_pc = "returned")
    cb_exc          \* check_breach: the exception raised (when cb_pc = "raised")

VARIABLES
    em_pc,              \* check_email_breach: "idle", "xon", "lc", "returned"
    em_email,           \* check_email_breach: its argument
    em_calls,           \* every URL it passed to requests.get, in order
    em_xon,             \* what XposedOrNot answered: [kind, raw]
    em_lc,              \* what LeakCheck answered: [kind, body]
    em_breaches,        \* the dict breaches, in insertion order: [key, val]
    em_errors,          \* the list errors
    em_sources_checked, \* the list sources_checked
    em_report           \* the returned dict (when em_pc = "returned")

VARIABLES
    ss_pc,          \* score_strength: "idle", "returned", "raised"
    ss_password,    \* score_strength: its argument
    ss_warnings,    \* the list warnings before it is deduplicated
    ss_report       \* the returned dict (when ss_pc = "returned")

VARIABLES
    gp_pc,          \* generate_password: "idle", "shuffle", "returned", "raised"
    gp_args,        \* its arguments: [noargs, length, uppercase, digits, symbols]
    gp_alphabet,    \* the string alphabet
    gp_required,    \* the list required
    gp_chars,       \* the list chars
    gp_i,           \* the index i of the shuffle loop
    gp_draws,       \* how many random values were drawn so far
    gp_result,      \* the returned string (when gp_pc = "returned")
    gp_exc          \* the exception raised (when gp_pc = "raised")

VARIABLES
    cli_pc,          \* the command: "idle", "check", "email", "returned", "raised"
    cli_args,        \* the parsed arguments: [command, passwords, file, emails]
    cli_passwords,   \* _cmd_check: the list passwords
    cli_k,           \* the position of the loop in its list (from 1)
    cli_breached,    \* _cmd_check: breached
    cli_counts,      \* _cmd_check: what check_breach returned, call by call
    cli_any_exposed, \* _cmd_email: any_exposed
    cli_result,      \* _cmd_email: result, the report of the last call
    cli_exposed,     \* _cmd_email: result["exposed"], call by call
    cli_code,        \* the value the command returned (when cli_pc = "returned")
    cli_exc          \* the exception that left it (when cli_pc = "raised")

cb_vars == <<cb_pc, cb_password, cb_sent, cb_lookup, cb_result, cb_exc>>

em_vars == <<em_pc, em_email, em_calls, em_xon, em_lc, em_breaches, em_errors,
             em_sources_checked, em_report>>

ss_vars == <<ss_pc, ss_password, ss_warnings, ss_report>>

gp_vars == <<gp_pc, gp_args, gp_alphabet, gp_required, gp_chars, gp_i, gp_draws,
             gp_result, gp_exc>>

cli_vars == <<cli_pc, cli_args, cli_passwords, cli_k, cli_breached, cli_counts,
              cli_any_exposed, cli_result, cli_exposed, cli_code, cli_exc>>

vars == <<cb_vars, em_vars, ss_vars, gp_vars, cli_vars>>

\* What a call of check_breach leaves alone, a call of check_email_breach, a
\* call of score_strength, a call of generate_password, and a command.
not_cb == <<em_vars, ss_vars, gp_vars, cli_vars>>

not_em == <<cb_vars, ss_vars, gp_vars, cli_vars>>

not_ss == <<cb_vars, em_vars, gp_vars, cli_vars>>

not_gp == <<cb_vars, em_vars, ss_vars, cli_vars>>

not_cli == <<cb_vars, em_vars, ss_vars, gp_vars>>

(***************************************************************************)
(* Bounds of the model.                                                    *)
(***************************************************************************)
\* The longest range response, in lines.
MaxLines == 2

\* The most breach names one XposedOrNot response holds.
MaxXonNames == 2

\* The most records one LeakCheck response holds.
MaxLcSources == 2

\* The most repetitions of a unit in a password given to score_strength.
MaxRepeat == 20

\* The longest password asked of generate_password by an explicit length.
MaxGenLength == 5

\* A command gets at most MaxCliItems positional arguments, and its file has
\* at most MaxCliItems lines.
MaxCliItems == 2

(***************************************************************************)
(* String helpers (Python's str methods, character by character).          *)
(***************************************************************************)
Char(s, i) == SubSeq(s, i, i)

Tail1(s) == SubSeq(s, 2, Len(s))

UpperLetters == "ABCDEFGHIJKLMNOPQRSTUVWXYZ"

LowerLetters == "abcdefghijklmnopqrstuvwxyz"

\* The position of character c in string s, 0 when it is not in it.
IndexIn(c, s) ==
    IF \E i \in 1..Len(s) : Char(s, i) = c
    THEN CHOOSE i \in 1..Len(s) : Char(s, i) = c
    ELSE 0

\* The case mappings of the ASCII letters.
UpperOf == [c \in {Char(LowerLetters, i) : i \in 1..26} |->
              Char(UpperLetters, IndexIn(c, LowerLetters))]

LowerOf == [c \in {Char(UpperLetters, i) : i \in 1..26} |->
              Char(LowerLetters, IndexIn(c, UpperLetters))]

\* str.upper() on one character.
UpperChar(c) == IF c \in DOMAIN UpperOf THEN UpperOf[c] ELSE c

\* str.lower() on one character.
LowerChar(c) == IF c \in DOMAIN LowerOf THEN LowerOf[c] ELSE c

RECURSIVE Upper(_)
Upper(s) == IF s = "" THEN "" ELSE UpperChar(Char(s, 1)) \o Upper(Tail1(s))

RECURSIVE Lower(_)
Lower(s) == IF s = "" THEN "" ELSE LowerChar(Char(s, 1)) \o Lower(Tail1(s))

\* s in t: s occurs in t as a run of consecutive characters.
OccursIn(s, t) ==
    \E i \in 1..(Len(t) - Len(s) + 1) : SubSeq(t, i, i + Len(s) - 1) = s

\* s[::-1]
RECURSIVE Reverse(_)
Reverse(s) == IF s = "" THEN "" ELSE Reverse(Tail1(s)) \o Char(s, 1)

\* int(s) for a string of decimal digits.
DigitVal(c) ==
    CASE c = "0" -> 0 [] c = "1" -> 1 [] c = "2" -> 2 [] c = "3" -> 3
      [] c = "4" -> 4 [] c = "5" -> 5 [] c = "6" -> 6 [] c = "7" -> 7
      [] c = "8" -> 8 [] c = "9" -> 9

RECURSIVE ParseInt(_)
ParseInt(s) ==
    IF Len(s) = 1 THEN DigitVal(s)
    ELSE 10 * ParseInt(SubSeq(s, 1, Len(s) - 1)) + DigitVal(Char(s, Len(s)))

(***************************************************************************)
(* check_breach                                                            *)
(***************************************************************************)
\* The passwords check_breach is called with.
BreachPasswords == {"password", "blic", "p7", ""}

\* hashlib.sha1(password.encode("utf-8")).hexdigest(): the real digests of
\* BreachPasswords ("password" and "blic" share their first five digits).
HexDigest(password) ==
    CASE password = "password" -> "5baa61e4c9b93f3f0682250b6cf8331b7ee68fd8"
      [] password = "blic"     -> "5baa6ab91f322902bffcec5c4fc22f2d69761736"
      [] password = "p7"       -> "e88b9eb4a293437625227c529460d0e00a216e9d"
      [] password = ""         -> "da39a3ee5e6b4b0d3255bfef95601890afd80709"

\* sha1 = hashlib.sha1(...).hexdigest().upper()
Sha1Upper(password) == Upper(HexDigest(password))

\* prefix, suffix = sha1[:5], sha1[5:]
HashPrefix(sha1) == SubSeq(sha1, 1, 5)

HashSuffix(sha1) == SubSeq(sha1, 6, Len(sha1))

\* A faulty range URL: the whole hash is sent.
RangeUrlFullHash(password) ==
    "https://api.pwnedpasswords.com/range/" \o Sha1Upper(password)

\* f"https://api.pwnedpasswords.com/range/{prefix}"
RangeUrl(password) ==
    "https://api.pwnedpasswords.com/range/" \o HashPrefix(Sha1Upper(password))

\* The lines a range response is made of: "SUFFIX:COUNT", the suffix of a
\* known password in upper case (as the service sends it) or in lower case.
RangeSuffixes ==
    {HashSuffix(Sha1Upper(p)) : p \in {"password", "blic", "p7"}}
        \cup {HashSuffix(HexDigest("password"))}

RangeLines == {s \o ":" \o c : s \in RangeSuffixes, c \in {"3", "10"}}

\* resp.text.splitlines(): every response of at most MaxLines lines.
RangeResponses == UNION {[1..n -> RangeLines] : n \in 0..MaxLines}

\* line.split(":"): the positions of the colons.
Colons(line) == {i \in 1..Len(line) : Char(line, i) = ":"}

\* A faulty scan: suffixes are compared ignoring case.
RECURSIVE ScanIgnoreCase(_, _)
ScanIgnoreCase(lines, suffix) ==
    IF lines = <<>> THEN [kind |-> "return", value |-> 0]
    ELSE LET line == Head(lines)
             i    == CHOOSE k \in Colons(line) : TRUE
         IN  IF Upper(SubSeq(line, 1, i - 1)) = Upper(suffix)
             THEN [kind |-> "return",
                   value |-> ParseInt(SubSeq(line, i + 1, Len(line)))]
             ELSE ScanIgnoreCase(Tail(lines), suffix)

\* for line in resp.text.splitlines(): hash_suffix, count = line.split(":");
\* if hash_suffix == suffix: return int(count) ... return 0
RECURSIVE Scan(_, _)
Scan(lines, suffix) ==
    IF lines = <<>> THEN [kind |-> "return", value |-> 0]
    ELSE LET line == Head(lines)
         IN  IF Cardinality(Colons(line)) # 1
             THEN [kind |-> "raise", value |-> 0]    \* ValueError: unpacking
             ELSE LET i == CHOOSE k \in Colons(line) : TRUE
                  IN  IF SubSeq(line, 1, i - 1) = suffix
                      THEN [kind |-> "return",
                            value |-> ParseInt(SubSeq(line, i + 1, Len(line)))]
                      ELSE Scan(Tail(lines), suffix)

\* The ways requests.get / raise_for_status fail.
LookupFailures == {"Timeout", "ConnectionError", "HTTPError"}

\* A faulty handling of a failed lookup: it is swallowed and 0 is returned.
FailedLookupSwallowed(kind) == [pc |-> "returned", result |-> 0, exc |-> "none"]

\* What check_breach does with a failed lookup: the exception of requests.get
\* or of resp.raise_for_status() is not caught.
FailedLookup(kind) == [pc |-> "raised", result |-> 0, exc |-> kind]

CbInit ==
    /\ cb_pc = "idle"
    /\ cb_password = ""
    /\ cb_sent = <<>>
    /\ cb_lookup = [kind |-> "none", lines |-> <<>>]
    /\ cb_result = 0
    /\ cb_exc = "none"

\* check_breach up to requests.get(...): the hash is computed and the range
\* query is sent.
CheckBreachCall ==
    /\ cb_pc = "idle"
    /\ \E password \in BreachPasswords :
          /\ cb_password' = password
          /\ cb_sent' = Append(cb_sent, RangeUrl(password))
    /\ cb_pc' = "lookup"
    /\ UNCHANGED <<cb_lookup, cb_result, cb_exc>>
    /\ UNCHANGED not_cb

\* The lookup succeeds: check_breach scans the lines and returns.
CheckBreachScan ==
    /\ cb_pc = "lookup"
    /\ \E lines \in RangeResponses :
          LET r == Scan(lines, HashSuffix(Sha1Upper(cb_password)))
          IN  /\ cb_lookup' = [kind |-> "ok", lines |-> lines]
              /\ cb_pc' = IF r.kind = "return" THEN "returned" ELSE "raised"
              /\ cb_result' = r.value
              /\ cb_exc' = IF r.kind = "return" THEN "none" ELSE "ValueError"
    /\ UNCHANGED <<cb_password, cb_sent>>
    /\ UNCHANGED not_cb

\* The lookup fails: requests.get raises, or raise_for_status does (the body of
\* an error response is never read).
CheckBreachLookupFails ==
    /\ cb_pc = "lookup"
    /\ \E kind \in LookupFailures, lines \in RangeResponses :
          LET r == FailedLookup(kind)
          IN  /\ cb_lookup' = [kind |-> kind,
                               lines |-> IF kind = "HTTPError" THEN lines ELSE <<>>]
              /\ cb_pc' = r.pc
              /\ cb_result' = r.result
              /\ cb_exc' = r.exc
    /\ UNCHANGED <<cb_password, cb_sent>>
    /\ UNCHANGED not_cb

CbNext == CheckBreachCall \/ CheckBreachScan \/ CheckBreachLookupFails

(***************************************************************************)
(* check_email_breach                                                      *)
(***************************************************************************)
JStr(s) == [t |-> "str", v |-> s]

JNull == [t |-> "null", v |-> ""]

JMissing == [t |-> "missing", v |-> ""]

\* The emails check_email_breach is called with.
Emails ==
    {"u@e.co", "not-an-email", "u@eco", "u@@e.co", "u v@e.co", "@e.co",
     "u@e.", "u@.co", "", " u@e.co", "u@e.co\n", "u@e.co\n\n"}

\* What \s matches.
Whitespace == {" ", "\t", "\n", "\r"}

\* A character [^@\s] does not match.
AtOrSpace(c) == c = "@" \/ c \in Whitespace

\* re.match(r"^[^@\s]+@[^@\s]+\.[^@\s]+$", email): the three groups are greedy
\* but backtrack, so the pattern matches when some "@" at i and some "." at j
\* leave three non-empty runs free of "@" and whitespace; "$" matches at the
\* end of the string and also just before a newline that ends the string.
EmailRegexMatches(email) ==
    LET n    == Len(email)
        ends == {n} \cup (IF n > 0 /\ Char(email, n) = "\n" THEN {n - 1} ELSE {})
    IN  \E e \in ends : \E i \in 2..e : \E j \in (i + 2)..(e - 1) :
            /\ Char(email, i) = "@"
            /\ Char(email, j) = "."
            /\ \A k \in (1..e) \ {i} : ~AtOrSpace(Char(email, k))

XonUrl(email) == "https://api.xposedornot.com/v1/check-email/" \o email

LcUrl(email) == "https://leakcheck.io/api/public?check=" \o email

\* The ways a source's lookup fails before any of its data is read:
\* requests.get raises, raise_for_status raises, resp.json() raises.
SourceFailures == {"Timeout", "HTTPError", "JSONDecodeError"}

\* Sequences over S of length at most n.
SeqUpTo(S, n) == UNION {[1..k -> S] : k \in 0..n}

\* The elements of the lists in XposedOrNot's "breaches": names, or null.
XonNames == {JStr("Adobe"), JStr("ADOBE"), JStr("Box"), JNull}

\* data.get("breaches", []): one list of names (the service's format), or
\* the names as items of their own.
XonRaws ==
    {<<[kind |-> "list", elems |-> ns]>> : ns \in SeqUpTo(XonNames, MaxXonNames)}
        \cup {[i \in 1..Len(ns) |-> [kind |-> "scalar", elems |-> <<ns[i]>>]] :
                 ns \in SeqUpTo(XonNames, MaxXonNames)}

\* The records of LeakCheck's "sources": name (a string, null or absent) and
\* date (a string, or null/absent).
LcRecords ==
    {[name |-> JStr("Adobe"), date |-> JStr("2013-10")],
     [name |-> JStr("adobe"), date |-> JNull],
     [name |-> JStr("Box"),   date |-> JStr("2012-07")],
     [name |-> JNull,         date |-> JStr("2013-10")],
     [name |-> JMissing,      date |-> JNull]}

\* LeakCheck's JSON: success, found and sources.  found is the number of
\* sources; the bodies with found = 0 or success = false beside a list of
\* sources are the ones whose records the code must leave alone.
LcBodies ==
    UNION {{[success |-> TRUE,  found |-> Len(src), sources |-> src],
            [success |-> TRUE,  found |-> 0,        sources |-> src],
            [success |-> FALSE, found |-> Len(src), sources |-> src]} :
           src \in SeqUpTo(LcRecords, MaxLcSources)}

\* str(item)
StrOf(item) == IF item.t = "str" THEN item.v ELSE "None"

\* names = []; for item in raw: names.extend(item) if it is a list, else
\* names.append(str(item))
RECURSIVE XonFlatten(_)
XonFlatten(raw) ==
    IF raw = <<>> THEN <<>>
    ELSE LET item == Head(raw)
         IN  (IF item.kind = "list" THEN item.elems
              ELSE <<JStr(StrOf(item.elems[1]))>>) \o XonFlatten(Tail(raw))

\* A faulty key: the name with its case kept.
KeyOfExact(name) == name

\* key = name.lower()
KeyOf(name) == Lower(name)

\* key in breaches
HasKey(breaches, key) == \E i \in 1..Len(breaches) : breaches[i].key = key

\* if key not in breaches: breaches[key] = val
InsertIfAbsent(breaches, key, val) ==
    IF HasKey(breaches, key) THEN breaches
    ELSE Append(breaches, [key |-> key, val |-> val])

\* breaches[key] = val: a key the dict holds keeps its place.
Upsert(breaches, key, val) ==
    IF HasKey(breaches, key)
    THEN [i \in 1..Len(breaches) |->
            IF breaches[i].key = key THEN [key |-> key, val |-> val]
            ELSE breaches[i]]
    ELSE Append(breaches, [key |-> key, val |-> val])

\* for name in names: ... (lines 83-90).  name.lower() raises AttributeError
\* on a name that is no string; what was inserted before stays in breaches.
RECURSIVE XonInsert(_, _)
XonInsert(breaches, names) ==
    IF names = <<>> THEN [breaches |-> breaches, raised |-> FALSE]
    ELSE LET name == Head(names)
         IN  IF name.t # "str" THEN [breaches |-> breaches, raised |-> TRUE]
             ELSE XonInsert(
                     InsertIfAbsent(breaches, KeyOf(name.v),
                         [name |-> name.v, date |-> JNull,
                          source |-> "XposedOrNot"]),
                     Tail(names))

\* A faulty LeakCheck write: an entry the dict holds is kept.
LcWriteKeepFirst(breaches, key, val) == InsertIfAbsent(breaches, key, val)

\* breaches[key] = {...} (lines 108-112)
LcWrite(breaches, key, val) == Upsert(breaches, key, val)

\* for src in data.get("sources", []): ... (lines 104-112).
\* src.get("name", "Unknown") is "Unknown" when the key is absent;
\* name.lower() raises AttributeError on null.
RECURSIVE LcInsert(_, _)
LcInsert(breaches, sources) ==
    IF sources = <<>> THEN [breaches |-> breaches, raised |-> FALSE]
    ELSE LET src  == Head(sources)
             name == IF src.name.t = "missing" THEN JStr("Unknown") ELSE src.name
         IN  IF name.t # "str" THEN [breaches |-> breaches, raised |-> TRUE]
             ELSE LcInsert(
                     LcWrite(breaches, KeyOf(name.v),
                         [name |-> name.v, date |-> src.date,
                          source |-> "LeakCheck"]),
                     Tail(sources))

\* list(breaches.values())
Values(breaches) == [i \in 1..Len(breaches) |-> breaches[i].val]

\* A faulty exposed flag: read from sources_checked.
ExposedFromSources(breaches, sources_checked) == Len(sources_checked) > 0

\* "exposed": len(breaches) > 0
Exposed(breaches, sources_checked) == Len(breaches) > 0

NoOutcome == [kind |-> "none", raw |-> <<>>,
              body |-> [success |-> FALSE, found |-> 0, sources |-> <<>>]]

NoReport == [exposed |-> FALSE, breaches |-> <<>>, sources_checked |-> <<>>,
             errors |-> <<>>]

EmInit ==
    /\ em_pc = "idle"
    /\ em_email = ""
    /\ em_calls = <<>>
    /\ em_xon = NoOutcome
    /\ em_lc = NoOutcome
    /\ em_breaches = <<>>
    /\ em_errors = <<>>
    /\ em_sources_checked = <<>>
    /\ em_report = NoReport

\* check_email_breach up to the first requests.get (lines 50-67): a rejected
\* email returns at once, an accepted one sends the XposedOrNot query.
CheckEmailCall ==
    /\ em_pc = "idle"
    /\ \E email \in Emails :
          /\ em_email' = email
          /\ IF EmailRegexMatches(email)
             THEN /\ em_pc' = "xon"
                  /\ em_calls' = Append(em_calls, XonUrl(email))
                  /\ em_errors' = <<>>
                  /\ em_report' = em_report
             ELSE /\ em_pc' = "returned"
                  /\ em_calls' = em_calls
                  /\ em_errors' = em_errors
                  /\ em_report' =
                        [exposed |-> FALSE, breaches |-> <<>>,
                         sources_checked |-> <<>>,
                         errors |-> <<"Invalid email address: " \o email>>]
    /\ UNCHANGED <<em_xon, em_lc, em_breaches, em_sources_checked>>
    /\ UNCHANGED not_em

\* A faulty failure path: the XposedOrNot query is sent once more after its
\* first failure.
XonFailsAndRetries ==
    /\ em_pc = "xon"
    /\ \E kind \in SourceFailures :
          /\ em_xon' = [NoOutcome EXCEPT !.kind = kind]
          /\ em_errors' = Append(em_errors, "XposedOrNot: " \o kind)
    /\ IF Len(em_calls) = 1
       THEN /\ em_pc' = "xon"
            /\ em_calls' = Append(em_calls, XonUrl(em_email))
       ELSE /\ em_pc' = "lc"
            /\ em_calls' = Append(em_calls, LcUrl(em_email))
    /\ UNCHANGED <<em_email, em_lc, em_breaches, em_sources_checked, em_report>>
    /\ UNCHANGED not_em

\* The XposedOrNot try block after requests.get, then the LeakCheck query
\* is sent (lines 68-100).
XonFails ==
    /\ em_pc = "xon"
    /\ \E kind \in SourceFailures :
          /\ em_xon' = [NoOutcome EXCEPT !.kind = kind]
          /\ em_errors' = Append(em_errors, "XposedOrNot: " \o kind)
    /\ em_pc' = "lc"
    /\ em_calls' = Append(em_calls, LcUrl(em_email))
    /\ UNCHANGED <<em_email, em_lc, em_breaches, em_sources_checked, em_report>>
    /\ UNCHANGED not_em

XonNotFound ==
    /\ em_pc = "xon"
    /\ em_xon' = [NoOutcome EXCEPT !.kind = "404"]
    /\ em_sources_checked' = Append(em_sources_checked, "XposedOrNot")
    /\ em_pc' = "lc"
    /\ em_calls' = Append(em_calls, LcUrl(em_email))
    /\ UNCHANGED <<em_email, em_lc, em_breaches, em_errors, em_report>>
    /\ UNCHANGED not_em

XonAnswers ==
    /\ em_pc = "xon"
    /\ \E raw \in XonRaws :
          LET r == XonInsert(em_breaches, XonFlatten(raw))
          IN  /\ em_xon' = [NoOutcome EXCEPT !.kind = "200", !.raw = raw]
              /\ em_breaches' = r.breaches
              /\ IF r.raised
                 THEN /\ em_errors' =
                            Append(em_errors, "XposedOrNot: AttributeError")
                      /\ em_sources_checked' = em_sources_checked
                 ELSE /\ em_errors' = em_errors
                      /\ em_sources_checked' =
                            Append(em_sources_checked, "XposedOrNot")
    /\ em_pc' = "lc"
    /\ em_calls' = Append(em_calls, LcUrl(em_email))
    /\ UNCHANGED <<em_email, em_lc, em_report>>
    /\ UNCHANGED not_em

\* The report check_email_breach returns (lines 117-122).
Report(breaches, sources_checked, errors) ==
    [exposed |-> Exposed(breaches, sources_checked),
     breaches |-> Values(breaches),
     sources_checked |-> sources_checked,
     errors |-> errors]

\* The LeakCheck try block after requests.get, then the return
\* (lines 101-122).
LcFails ==
    /\ em_pc = "lc"
    /\ \E kind \in SourceFailures :
          LET errors == Append(em_errors, "LeakCheck: " \o kind)
          IN  /\ em_lc' = [NoOutcome EXCEPT !.kind = kind]
              /\ em_errors' = errors
              /\ em_report' = Report(em_breaches, em_sources_checked, errors)
    /\ em_pc' = "returned"
    /\ UNCHANGED <<em_email, em_calls, em_xon, em_breaches, em_sources_checked>>
    /\ UNCHANGED not_em

LcAnswers ==
    /\ em_pc = "lc"
    /\ \E body \in LcBodies :
          LET r == IF body.success /\ body.found > 0
                   THEN LcInsert(em_breaches, body.sources)
                   ELSE [breaches |-> em_breaches, raised |-> FALSE]
              errors == IF r.raised
                        THEN Append(em_errors, "LeakCheck: AttributeError")
                        ELSE em_errors
              checked == IF r.raised THEN em_sources_checked
                         ELSE Append(em_sources_checked, "LeakCheck")
          IN  /\ em_lc' = [NoOutcome EXCEPT !.kind = "200", !.body = body]
              /\ em_breaches' = r.breaches
              /\ em_errors' = errors
              /\ em_sources_checked' = checked
              /\ em_report' = Report(r.breaches, checked, errors)
    /\ em_pc' = "returned"
    /\ UNCHANGED <<em_email, em_calls, em_xon>>
    /\ UNCHANGED not_em

EmNext ==
    \/ CheckEmailCall
    \/ XonFails
    \/ XonNotFound
    \/ XonAnswers
    \/ LcFails
    \/ LcAnswers

(***************************************************************************)
(* score_strength                                                          *)
(***************************************************************************)
\* _SEQUENCES
SEQUENCES ==
    <<"abcdefghijklmnopqrstuvwxyz", "0123456789", "qwertyuiop", "asdfghjkl",
      "zxcvbnm">>

RECURSIVE Repeat(_, _)
Repeat(s, k) == IF k = 0 THEN "" ELSE s \o Repeat(s, k - 1)

\* The passwords score_strength is called with: a unit repeated up to
\* MaxRepeat times, then a tail.  The units give every number of character
\* classes (the character e-acute is a symbol to the code: it is not in
\* [a-zA-Z\d]); the tails hold runs of the sequences, forwards, reversed and
\* in upper case, and repeated characters (three line feeds among them).
ScoreUnits == {"q", "77", "!", "Qz", "k7", "aB3$"}

ScoreTails ==
    {"", "abc", "zyX", "fgh", "098", "é", "Ytr", "nbV", "\n\n\n", "jklCba"}

ScorePasswords ==
    {Repeat(u, k) \o t : u \in ScoreUnits, k \in 0..MaxRepeat, t \in ScoreTails}

LowerSet == {Char(LowerLetters, i) : i \in 1..26}

UpperSet == {Char(UpperLetters, i) : i \in 1..26}

DigitSet == {"0", "1", "2", "3", "4", "5", "6", "7", "8", "9"}

\* classes = {...}: re.search of [a-z], [A-Z], \d and [^a-zA-Z\d].
CharClasses(password) ==
    LET chars == {Char(password, i) : i \in 1..Len(password)}
    IN  [lowercase |-> chars \cap LowerSet # {},
         uppercase |-> chars \cap UpperSet # {},
         digits    |-> chars \cap DigitSet # {},
         symbols   |-> chars \ (LowerSet \cup UpperSet \cup DigitSet) # {}]

\* A faulty pool: symbols add nothing to it.
PoolNoSymbols(classes) ==
    LET sum == (IF classes.lowercase THEN 26 ELSE 0)
                 + (IF classes.uppercase THEN 26 ELSE 0)
                 + (IF classes.digits THEN 10 ELSE 0)
    IN  IF sum = 0 THEN 1 ELSE sum

\* pool = sum([...]) or 1
Pool(classes) ==
    LET sum == (IF classes.lowercase THEN 26 ELSE 0)
                 + (IF classes.uppercase THEN 26 ELSE 0)
                 + (IF classes.digits THEN 10 ELSE 0)
                 + (IF classes.symbols THEN 32 ELSE 0)
    IN  IF sum = 0 THEN 1 ELSE sum

\* math.log2(pool) in millionths of a bit, rounded down, for the pools the
\* four classes can give.  (With it, every comparison of the entropy with 28,
\* 36, 50, 65 and 90 and every round(entropy, 1) below comes out as it does
\* in floating point for passwords of up to 199 characters.)
Log2Micro(pool) ==
    CASE pool = 1  -> 0
      [] pool = 10 -> 3321928 [] pool = 26 -> 4700439 [] pool = 32 -> 5000000
      [] pool = 36 -> 5169925 [] pool = 42 -> 5392317 [] pool = 52 -> 5700439
      [] pool = 58 -> 5857980 [] pool = 62 -> 5954196 [] pool = 68 -> 6087462
      [] pool = 84 -> 6392317 [] pool = 94 -> 6554588

\* n bits in millionths of a bit.
Bits(n) == n * 1000000

\* A faulty entropy: the distinct characters are counted, not the length.
EntropyOfDistinct(password) ==
    IF password = "" THEN 0
    ELSE Cardinality({Char(password, i) : i \in 1..Len(password)})
            * Log2Micro(Pool(CharClasses(password)))

\* entropy = len(password) * math.log2(pool) if password else 0.0
\* (in millionths of a bit)
Entropy(password) ==
    IF password = "" THEN 0
    ELSE Len(password) * Log2Micro(Pool(CharClasses(password)))

\* round(entropy, 1), in tenths of a bit.
Round1(entropy) == (entropy + 50000) \div 100000

\* A faulty scan of one sequence: it does not stop at the first chunk found.
RECURSIVE WarningsFrom(_, _, _)
WarningsFrom(seq, lower, i) ==
    IF i > Len(seq) - 2 THEN <<>>
    ELSE (IF \/ OccursIn(SubSeq(seq, i, i + 2), lower)
             \/ OccursIn(Reverse(SubSeq(seq, i, i + 2)), lower)
          THEN <<"Sequential pattern detected ('" \o SubSeq(seq, i, i + 2)
                   \o "')">>
          ELSE <<>>) \o WarningsFrom(seq, lower, i + 1)

SequentialWarningEveryChunk(seq, lower) == WarningsFrom(seq, lower, 1)

\* A faulty scan of one sequence: the reversed chunk is not looked for.
SequentialWarningForwards(seq, lower) ==
    LET hits == {i \in 1..(Len(seq) - 2) :
                    OccursIn(SubSeq(seq, i, i + 2), lower)}
    IN  IF hits = {} THEN <<>>
        ELSE LET i == CHOOSE k \in hits : \A m \in hits : k <= m
             IN  <<"Sequential pattern detected ('" \o SubSeq(seq, i, i + 2)
                     \o "')">>

\* for i in range(len(seq) - 2): chunk = seq[i : i + 3];
\* if chunk in lower or chunk[::-1] in lower: warnings.append(...); break
SequentialWarning(seq, lower) ==
    LET hits == {i \in 1..(Len(seq) - 2) :
                    \/ OccursIn(SubSeq(seq, i, i + 2), lower)
                    \/ OccursIn(Reverse(SubSeq(seq, i, i + 2)), lower)}
    IN  IF hits = {} THEN <<>>
        ELSE LET i == CHOOSE k \in hits : \A m \in hits : k <= m
             IN  <<"Sequential pattern detected ('" \o SubSeq(seq, i, i + 2)
                     \o "')">>

\* A faulty pattern detection: it is made whatever the entropy.
RECURSIVE SequentialWarningsAlways(_, _, _)
SequentialWarningsAlways(seqs, lower, entropy) ==
    IF seqs = <<>> THEN <<>>
    ELSE SequentialWarning(Head(seqs), lower)
            \o SequentialWarningsAlways(Tail(seqs), lower, entropy)

\* if entropy < 90: for seq in _SEQUENCES: ...
RECURSIVE SequentialWarnings(_, _, _)
SequentialWarnings(seqs, lower, entropy) ==
    IF seqs = <<>> \/ ~(entropy < Bits(90)) THEN <<>>
    ELSE SequentialWarning(Head(seqs), lower)
            \o SequentialWarnings(Tail(seqs), lower, entropy)

\* re.search(r"(.)\1{2,}", password): "." matches any character but "\n".
HasRepeat(password) ==
    \E i \in 1..(Len(password) - 2) :
        /\ Char(password, i) # "\n"
        /\ Char(password, i + 1) = Char(password, i)
        /\ Char(password, i + 2) = Char(password, i)

\* A faulty length warning: a password of 8 characters is still too short.
LengthWarningUpTo8(password) ==
    IF Len(password) <= 8 THEN <<"Too short -- use at least 8 characters">>
    ELSE IF Len(password) < 12 THEN <<"Consider using 12+ characters">>
    ELSE <<>>

\* The length warning (lines 180-183).
LengthWarning(password) ==
    IF Len(password) < 8 THEN <<"Too short -- use at least 8 characters">>
    ELSE IF Len(password) < 12 THEN <<"Consider using 12+ characters">>
    ELSE <<>>

\* A faulty deduplication: the list is kept as it is.
DedupNothing(ws) == ws

\* list(dict.fromkeys(warnings))
RECURSIVE Dedup(_)
Dedup(ws) ==
    IF ws = <<>> THEN <<>>
    ELSE LET front == Dedup(SubSeq(ws, 1, Len(ws) - 1))
             last  == ws[Len(ws)]
         IN  IF \E k \in 1..Len(front) : front[k] = last THEN front
             ELSE Append(front, last)

\* class_count = sum(classes.values())
ClassCount(classes) ==
    (IF classes.lowercase THEN 1 ELSE 0) + (IF classes.uppercase THEN 1 ELSE 0)
        + (IF classes.digits THEN 1 ELSE 0) + (IF classes.symbols THEN 1 ELSE 0)

\* A faulty composite score: the override needs more than 90 bits.
ScoreOverrideAbove(entropy, length, class_count) ==
    LET high_entropy == entropy > Bits(90)
    IN  IF entropy < Bits(28) \/ length < 8 THEN 0
        ELSE IF entropy < Bits(36) \/ (~high_entropy /\ class_count < 2) THEN 1
        ELSE IF entropy < Bits(50) \/ (~high_entropy /\ class_count < 3) THEN 2
        ELSE IF entropy < Bits(65) /\ ~high_entropy THEN 3
        ELSE 4

\* A faulty composite score: a "not" is missing before high_entropy in the
\* class-count gates.
ScoreGatesWhenHigh(entropy, length, class_count) ==
    LET high_entropy == entropy >= Bits(90)
    IN  IF entropy < Bits(28) \/ length < 8 THEN 0
        ELSE IF entropy < Bits(36) \/ (high_entropy /\ class_count < 2) THEN 1
        ELSE IF entropy < Bits(50) \/ (high_entropy /\ class_count < 3) THEN 2
        ELSE IF entropy < Bits(65) /\ ~high_entropy THEN 3
        ELSE 4

\* A faulty composite score: the class-count gates have no override.
ScoreWithoutOverride(entropy, length, class_count) ==
    IF entropy < Bits(28) \/ length < 8 THEN 0
    ELSE IF entropy < Bits(36) \/ class_count < 2 THEN 1
    ELSE IF entropy < Bits(50) \/ class_count < 3 THEN 2
    ELSE IF entropy < Bits(65) THEN 3
    ELSE 4

\* The composite score (lines 188-200).
Score(entropy, length, class_count) ==
    LET high_entropy == entropy >= Bits(90)
    IN  IF entropy < Bits(28) \/ length < 8 THEN 0
        ELSE IF entropy < Bits(36) \/ (~high_entropy /\ class_count < 2) THEN 1
        ELSE IF entropy < Bits(50) \/ (~high_entropy /\ class_count < 3) THEN 2
        ELSE IF entropy < Bits(65) /\ ~high_entropy THEN 3
        ELSE 4

\* A faulty list of labels: the last one is missing.
LabelsFour == <<"Very Weak", "Weak", "Fair", "Strong">>

\* labels
Labels == <<"Very Weak", "Weak", "Fair", "Strong", "Very Strong">>

\* The two places of score_strength that can raise: math.log2(pool) of a
\* non-empty password (ValueError unless pool > 0) and labels[score]
\* (IndexError unless -len(labels) <= score < len(labels)).
ScoreRaises(password) ==
    LET classes == CharClasses(password)
        score   == Score(Entropy(password), Len(password), ClassCount(classes))
    IN  \/ password # "" /\ ~(Pool(classes) > 0)
        \/ ~(0 - Len(Labels) <= score /\ score < Len(Labels))

\* warnings, as lines 168-183 leave it.
Warnings(password) ==
    SequentialWarnings(SEQUENCES, Lower(password), Entropy(password))
        \o (IF HasRepeat(password)
            THEN <<"Repeated characters detected (e.g. 'aaa')">>
            ELSE <<>>)
        \o LengthWarning(password)

\* score_strength(password): the returned dict.
ScoreReport(password) ==
    LET classes == CharClasses(password)
        entropy == Entropy(password)
        score   == Score(entropy, Len(password), ClassCount(classes))
    IN  [length       |-> Len(password),
         entropy      |-> Round1(entropy),
         char_classes |-> classes,
         score        |-> score,
         label        |-> Labels[score + 1],
         warnings     |-> Dedup(Warnings(password))]

NoScoreReport ==
    [length |-> 0, entropy |-> 0,
     char_classes |-> [lowercase |-> FALSE, uppercase |-> FALSE,
                       digits |-> FALSE, symbols |-> FALSE],
     score |-> 0, label |-> "", warnings |-> <<>>]

SsInit ==
    /\ ss_pc = "idle"
    /\ ss_password = ""
    /\ ss_warnings = <<>>
    /\ ss_report = NoScoreReport

\* One call of score_strength.
ScoreStrength ==
    /\ ss_pc = "idle"
    /\ \E password \in ScorePasswords :
          /\ ss_password' = password
          /\ ss_warnings' = Warnings(password)
          /\ IF ScoreRaises(password)
             THEN ss_pc' = "raised" /\ ss_report' = NoScoreReport
             ELSE ss_pc' = "returned" /\ ss_report' = ScoreReport(password)
    /\ UNCHANGED not_ss

SsNext == ScoreStrength

(***************************************************************************)
(* generate_password                                                       *)
(***************************************************************************)
\* The default of the parameter length.
DefaultLength == 12

\* string.ascii_lowercase, string.ascii_uppercase, string.digits and
\* string.punctuation.  (A TLA+ string cannot hold the grave accent, the 29th
\* character of string.punctuation: the acute accent, which like it is no
\* letter and no digit, stands for it.)
AsciiLowercase == "abcdefghijklmnopqrstuvwxyz"

AsciiUppercase == "ABCDEFGHIJKLMNOPQRSTUVWXYZ"

Digits == "0123456789"

Punctuation == "!\"#$%&'()*+,-./:;<=>?@[\\]^_´{|}~"

\* The calls made: generate_password() with every parameter at its default,
\* and generate_password(length, uppercase=, digits=, symbols=).
GenArgs ==
    {[noargs |-> TRUE, length |-> DefaultLength, uppercase |-> TRUE,
      digits |-> TRUE, symbols |-> TRUE]}
    \cup [noargs : {FALSE}, length : -1..MaxGenLength, uppercase : BOOLEAN,
          digits : BOOLEAN, symbols : BOOLEAN]

\* What secrets.randbelow(n) may return: any of 0..n-1.  The model follows
\* every value of a range of at most MaxGenLength values (each draw of the
\* shuffle of a list that long) and the two ends and the middle of a larger
\* range (each secrets.choice); in a call for more than MaxGenLength
\* characters it follows the largest value only.
Randbelow(n, length) ==
    IF length > MaxGenLength THEN {n - 1}
    ELSE IF n <= MaxGenLength THEN 0..(n - 1)
    ELSE {0, n \div 2, n - 1}

\* [secrets.choice(seq)]: seq[secrets.randbelow(len(seq))], as a list.
Choice(seq, length) ==
    {<<Char(seq, k + 1)>> : k \in Randbelow(Len(seq), length)}

\* if flag: required.append(secrets.choice(seq))
ChoiceIf(flag, seq, length) == IF flag THEN Choice(seq, length) ELSE {<<>>}

\* A faulty alphabet: every class is in it, whatever the flags.
AlphabetOfAllClasses(args) ==
    AsciiLowercase \o AsciiUppercase \o Digits \o Punctuation

\* alphabet, after the three ifs.
Alphabet(args) ==
    AsciiLowercase \o (IF args.uppercase THEN AsciiUppercase ELSE "")
        \o (IF args.digits THEN Digits ELSE "")
        \o (IF args.symbols THEN Punctuation ELSE "")

\* A faulty list required: no digit is appended to it.
RequiredWithoutDigit(args) ==
    {l \o u \o s :
        l \in Choice(AsciiLowercase, args.length),
        u \in ChoiceIf(args.uppercase, AsciiUppercase, args.length),
        s \in ChoiceIf(args.symbols, Punctuation, args.length)}

\* required, after the three ifs, for every outcome of its draws.
Required(args) ==
    {l \o u \o d \o s :
        l \in Choice(AsciiLowercase, args.length),
        u \in ChoiceIf(args.uppercase, AsciiUppercase, args.length),
        d \in ChoiceIf(args.digits, Digits, args.length),
        s \in ChoiceIf(args.symbols, Punctuation, args.length)}

\* A faulty fill: length characters are drawn, not remaining.
FillWholeLength(alphabet, remaining, length) ==
    LET picks == {Char(alphabet, k + 1) :
                    k \in Randbelow(Len(alphabet), length)}
    IN  IF length <= 0 THEN {<<>>} ELSE [1..length -> picks]

\* [secrets.choice(alphabet) for _ in range(remaining)], for every outcome
\* of its draws (range(remaining) is empty when remaining <= 0).
Fill(alphabet, remaining, length) ==
    LET picks == {Char(alphabet, k + 1) :
                    k \in Randbelow(Len(alphabet), length)}
    IN  IF remaining <= 0 THEN {<<>>} ELSE [1..remaining -> picks]

\* chars[i], chars[j] = chars[j], chars[i]  (indices from 0)
Swap(chars, i, j) ==
    [chars EXCEPT ![i + 1] = chars[j + 1], ![j + 1] = chars[i + 1]]

\* "".join(chars)
RECURSIVE Join(_)
Join(chars) == IF chars = <<>> THEN "" ELSE Head(chars) \o Join(Tail(chars))

\* A faulty test of the length: 3 characters are accepted.
TooShortBelow3(length) == length < 3

\* if length < 4
TooShort(length) == length < 4

\* A faulty range of the shuffle's draw: j is drawn below i.
ShuffleRangeBelow(i) == i

\* secrets.randbelow(i + 1): the range j is drawn from.
ShuffleRange(i) == i + 1

\* The loop of lines 249-251 from index i on, with the draws js.
RECURSIVE ShuffleFrom(_, _, _)
ShuffleFrom(chars, i, js) ==
    IF i < 1 THEN chars
    ELSE ShuffleFrom(Swap(chars, i, Head(js)), i - 1, Tail(js))

GpInit ==
    /\ gp_pc = "idle"
    /\ gp_args = [noargs |-> TRUE, length |-> DefaultLength,
                  uppercase |-> TRUE, digits |-> TRUE, symbols |-> TRUE]
    /\ gp_alphabet = ""
    /\ gp_required = <<>>
    /\ gp_chars = <<>>
    /\ gp_i = 0
    /\ gp_draws = 0
    /\ gp_result = ""
    /\ gp_exc = "none"

\* A call with length < 4: raise ValueError (lines 229-230).
GenerateRejects ==
    /\ gp_pc = "idle"
    /\ \E args \in GenArgs :
          /\ TooShort(args.length)
          /\ gp_args' = args
    /\ gp_pc' = "raised"
    /\ gp_exc' = "ValueError: Password length must be at least 4"
    /\ UNCHANGED <<gp_alphabet, gp_required, gp_chars, gp_i, gp_draws,
                   gp_result>>
    /\ UNCHANGED not_gp

\* A call with length >= 4, up to the shuffle loop (lines 229-249): the
\* alphabet, the required characters, the fill, and the first value of i.
GenerateDraws ==
    /\ gp_pc = "idle"
    /\ \E args \in GenArgs :
          /\ ~TooShort(args.length)
          /\ gp_args' = args
          /\ gp_alphabet' = Alphabet(args)
          /\ \E required \in Required(args) :
                LET remaining == args.length - Len(required)
                IN  \E fill \in Fill(Alphabet(args), remaining, args.length) :
                       /\ gp_required' = required
                       /\ gp_chars' = required \o fill
                       /\ gp_draws' = Len(required) + Len(fill)
                       /\ gp_i' = Len(required \o fill) - 1
    /\ gp_pc' = "shuffle"
    /\ UNCHANGED <<gp_result, gp_exc>>
    /\ UNCHANGED not_gp

\* One turn of the shuffle loop (lines 249-251): i runs from len(chars) - 1
\* down to 1.
ShuffleStep ==
    /\ gp_pc = "shuffle"
    /\ gp_i >= 1
    /\ \E j \in Randbelow(ShuffleRange(gp_i), gp_args.length) :
          gp_chars' = Swap(gp_chars, gp_i, j)
    /\ gp_i' = gp_i - 1
    /\ gp_draws' = gp_draws + 1
    /\ UNCHANGED <<gp_pc, gp_args, gp_alphabet, gp_required, gp_result, gp_exc>>
    /\ UNCHANGED not_gp

\* The end of the loop and the return (line 253).
GenerateReturns ==
    /\ gp_pc = "shuffle"
    /\ ~(gp_i >= 1)
    /\ gp_result' = Join(gp_chars)
    /\ gp_pc' = "returned"
    /\ UNCHANGED <<gp_args, gp_alphabet, gp_required, gp_chars, gp_i, gp_draws,
                   gp_exc>>
    /\ UNCHANGED not_gp

GpNext ==
    \/ GenerateRejects
    \/ GenerateDraws
    \/ ShuffleStep
    \/ GenerateReturns

(***************************************************************************)
(* The command line: _cmd_check and _cmd_email (src/passguard/cli.py)      *)
(***************************************************************************)
\* check_breach(password) as one value, given what the range lookup does:
\* the count it returns, or the exception that leaves it.
CheckBreach(password, lookup) ==
    IF lookup.kind = "ok"
    THEN LET r == Scan(lookup.lines, HashSuffix(Sha1Upper(password)))
         IN  [kind |-> r.kind, value |-> r.value,
              exc |-> IF r.kind = "return" THEN "none" ELSE "ValueError"]
    ELSE LET r == FailedLookup(lookup.kind)
         IN  [kind |-> IF r.pc = "returned" THEN "return" ELSE "raise",
              value |-> r.result, exc |-> r.exc]

\* What the range lookup may do.
Lookups ==
    {[kind |-> "ok", lines |-> lines] : lines \in RangeResponses}
        \cup {[kind |-> kind, lines |-> <<>>] : kind \in LookupFailures}

\* check_email_breach(email) as one value, given what the two sources
\* answer: the dict it returns.
CheckEmailBreach(email, xon, lc) ==
    IF ~EmailRegexMatches(email)
    THEN [exposed |-> FALSE, breaches |-> <<>>, sources_checked |-> <<>>,
          errors |-> <<"Invalid email address: " \o email>>]
    ELSE LET x  == IF xon.kind = "200"
                   THEN XonInsert(<<>>, XonFlatten(xon.raw))
                   ELSE [breaches |-> <<>>, raised |-> FALSE]
             xe == IF xon.kind \in SourceFailures
                   THEN <<"XposedOrNot: " \o xon.kind>>
                   ELSE IF x.raised THEN <<"XposedOrNot: AttributeError">>
                   ELSE <<>>
             xc == IF xe = <<>> THEN <<"XposedOrNot">> ELSE <<>>
             l  == IF lc.kind = "200" /\ lc.body.success /\ lc.body.found > 0
                   THEN LcInsert(x.breaches, lc.body.sources)
                   ELSE [breaches |-> x.breaches, raised |-> FALSE]
             le == IF lc.kind \in SourceFailures
                   THEN Append(xe, "LeakCheck: " \o lc.kind)
                   ELSE IF l.raised THEN Append(xe, "LeakCheck: AttributeError")
                   ELSE xe
             lk == IF le = xe THEN Append(xc, "LeakCheck") ELSE xc
         IN  Report(l.breaches, lk, le)

\* What XposedOrNot may answer, and what LeakCheck may.
XonOutcomes ==
    {[NoOutcome EXCEPT !.kind = kind] : kind \in SourceFailures \cup {"404"}}
        \cup {[NoOutcome EXCEPT !.kind = "200", !.raw = raw] : raw \in XonRaws}

LcOutcomes ==
    {[NoOutcome EXCEPT !.kind = kind] : kind \in SourceFailures}
        \cup {[NoOutcome EXCEPT !.kind = "200", !.body = body] :
                 body \in LcBodies}

\* The positional arguments of the two commands, and the lines of the file
\* --file names (each ends with its line feed).
CliPasswords == {"p7", ""}

CliEmails == {"u@e.co", "not-an-email"}

FileLines == {"p7\n", " blic \n", " \n"}

\* args.file: not given, a file open() cannot read, or a file of lines.
NoFile == [kind |-> "none", lines |-> <<>>]

Files ==
    {NoFile, [kind |-> "unreadable", lines |-> <<>>]}
        \cup {[kind |-> "lines", lines |-> lines] :
                 lines \in SeqUpTo(FileLines, MaxCliItems)}

\* line.strip()
RECURSIVE Strip(_)
Strip(line) ==
    IF line = "" THEN ""
    ELSE IF Char(line, 1) \in Whitespace
    THEN Strip(SubSeq(line, 2, Len(line)))
    ELSE IF Char(line, Len(line)) \in Whitespace
    THEN Strip(SubSeq(line, 1, Len(line) - 1))
    ELSE line

\* line.strip() for line in f if line.strip()
RECURSIVE StrippedLines(_)
StrippedLines(lines) ==
    IF lines = <<>> THEN <<>>
    ELSE (IF Strip(Head(lines)) # "" THEN <<Strip(Head(lines))>> ELSE <<>>)
             \o StrippedLines(Tail(lines))

\* The outcomes of check_breach for every password a command passes to it, and
\* the reports of check_email_breach for every email.
BreachOutcomes ==
    [password \in CliPasswords \cup {Strip(line) : line \in FileLines}
        |-> {CheckBreach(password, lookup) : lookup \in Lookups}]

EmailReports ==
    [email \in CliEmails
        |-> {CheckEmailBreach(email, xon, lc) :
                xon \in XonOutcomes, lc \in LcOutcomes}]

\* if result["errors"] and not result["sources_checked"]: ... continue
Skipped(result) == result.errors # <<>> /\ result.sources_checked = <<>>

NoArgs == [command |-> "none", passwords |-> <<>>, file |-> NoFile,
           emails |-> <<>>]

CliInit ==
    /\ cli_pc = "idle"
    /\ cli_args = NoArgs
    /\ cli_passwords = <<>>
    /\ cli_k = 0
    /\ cli_breached = FALSE
    /\ cli_counts = <<>>
    /\ cli_any_exposed = FALSE
    /\ cli_result = NoReport
    /\ cli_exposed = <<>>
    /\ cli_code = 0
    /\ cli_exc = "none"

\* The arguments of a check command.
CheckArgs ==
    {[NoArgs EXCEPT !.command = "check", !.passwords = ps, !.file = f] :
        ps \in SeqUpTo(CliPasswords, MaxCliItems), f \in Files}

\* The arguments of an email command: nargs="+" gives at least one email.
EmailArgs ==
    {[NoArgs EXCEPT !.command = "email", !.emails = es] :
        es \in SeqUpTo(CliEmails, MaxCliItems) \ {<<>>}}

\* _cmd_check, lines 71-75, when open() raises.
CmdCheckFileUnreadable ==
    /\ cli_pc = "idle"
    /\ \E args \in CheckArgs :
          /\ args.file.kind = "unreadable"
          /\ cli_args' = args
          /\ cli_passwords' = args.passwords
    /\ cli_pc' = "raised"
    /\ cli_exc' = "OSError"
    /\ UNCHANGED <<cli_k, cli_breached, cli_counts, cli_any_exposed, cli_result,
                   cli_exposed, cli_code>>
    /\ UNCHANGED not_cli

\* _cmd_check, lines 71-79, when the list passwords is empty: return 1.
CmdCheckNoPasswords ==
    /\ cli_pc = "idle"
    /\ \E args \in CheckArgs :
          /\ args.file.kind # "unreadable"
          /\ args.passwords \o StrippedLines(args.file.lines) = <<>>
          /\ cli_args' = args
    /\ cli_passwords' = <<>>
    /\ cli_pc' = "returned"
    /\ cli_code' = 1
    /\ UNCHANGED <<cli_k, cli_breached, cli_counts, cli_any_exposed, cli_result,
                   cli_exposed, cli_exc>>
    /\ UNCHANGED not_cli

\* _cmd_check, lines 71-81, when there are passwords: breached = False.
CmdCheckBegins ==
    /\ cli_pc = "idle"
    /\ \E args \in CheckArgs :
          /\ args.file.kind # "unreadable"
          /\ args.passwords \o StrippedLines(args.file.lines) # <<>>
          /\ cli_args' = args
          /\ cli_passwords' = args.passwords \o StrippedLines(args.file.lines)
    /\ cli_pc' = "check"
    /\ cli_k' = 1
    /\ cli_breached' = FALSE
    /\ UNCHANGED <<cli_counts, cli_any_exposed, cli_result, cli_exposed,
                   cli_code, cli_exc>>
    /\ UNCHANGED not_cli

\* One turn of the loop of _cmd_check (lines 82-96).  The --strength branch
\* calls score_strength, which returns for every string, and prints.
CmdCheckTurn ==
    /\ cli_pc = "check"
    /\ cli_k <= Len(cli_passwords)
    /\ \E o \in BreachOutcomes[cli_passwords[cli_k]] :
          IF o.kind = "return"
          THEN /\ cli_counts' = Append(cli_counts, o.value)
               /\ cli_breached' = (cli_breached \/ o.value # 0)
               /\ cli_k' = cli_k + 1
               /\ UNCHANGED <<cli_pc, cli_exc>>
          ELSE /\ cli_pc' = "raised"
               /\ cli_exc' = o.exc
               /\ UNCHANGED <<cli_counts, cli_breached, cli_k>>
    /\ UNCHANGED <<cli_args, cli_passwords, cli_any_exposed, cli_result,
                   cli_exposed, cli_code>>
    /\ UNCHANGED not_cli

\* return 1 if breached else 0 (line 98)
CmdCheckReturns ==
    /\ cli_pc = "check"
    /\ cli_k > Len(cli_passwords)
    /\ cli_pc' = "returned"
    /\ cli_code' = IF cli_breached THEN 1 ELSE 0
    /\ UNCHANGED <<cli_args, cli_passwords, cli_k, cli_breached, cli_counts,
                   cli_any_exposed, cli_result, cli_exposed, cli_exc>>
    /\ UNCHANGED not_cli

\* _cmd_email, line 102: any_exposed = False.
CmdEmailBegins ==
    /\ cli_pc = "idle"
    /\ \E args \in EmailArgs : cli_args' = args
    /\ cli_pc' = "email"
    /\ cli_k' = 1
    /\ cli_any_exposed' = FALSE
    /\ UNCHANGED <<cli_passwords, cli_breached, cli_counts, cli_result,
                   cli_exposed, cli_code, cli_exc>>
    /\ UNCHANGED not_cli

\* One turn of the loop of _cmd_email (lines 103-124).
CmdEmailTurn ==
    /\ cli_pc = "email"
    /\ cli_k <= Len(cli_args.emails)
    /\ \E result \in EmailReports[cli_args.emails[cli_k]] :
          /\ cli_result' = result
          /\ cli_exposed' = Append(cli_exposed, result.exposed)
          /\ cli_any_exposed' =
                IF Skipped(result) THEN cli_any_exposed
                ELSE (cli_any_exposed \/ result.exposed)
    /\ cli_k' = cli_k + 1
    /\ UNCHANGED <<cli_pc, cli_args, cli_passwords, cli_breached, cli_counts,
                   cli_code, cli_exc>>
    /\ UNCHANGED not_cli

\* return 1 if any_exposed else 0 (line 126)
CmdEmailReturns ==
    /\ cli_pc = "email"
    /\ cli_k > Len(cli_args.emails)
    /\ cli_pc' = "returned"
    /\ cli_code' = IF cli_any_exposed THEN 1 ELSE 0
    /\ UNCHANGED <<cli_args, cli_passwords, cli_k, cli_breached, cli_counts,
                   cli_any_exposed, cli_result, cli_exposed, cli_exc>>
    /\ UNCHANGED not_cli

CliNext ==
    \/ CmdCheckFileUnreadable
    \/ CmdCheckNoPasswords
    \/ CmdCheckBegins
    \/ CmdCheckTurn
    \/ CmdCheckReturns
    \/ CmdEmailBegins
    \/ CmdEmailTurn
    \/ CmdEmailReturns

(***************************************************************************)
(* The specifications: one call of one function, or one command, each.     *)
(***************************************************************************)
Init == CbInit /\ EmInit /\ SsInit /\ GpInit /\ CliInit

SpecBreach == Init /\ [][CbNext]_vars

SpecEmail == Init /\ [][EmNext]_vars

SpecScore == Init /\ [][SsNext]_vars

SpecGen == Init /\ [][GpNext]_vars

SpecCli == Init /\ [][CliNext]_vars

(***************************************************************************)
(* The claims about check_breach (checked under SpecBreach).               *)
(***************************************************************************)
\* The fixed part of the range URL, and what a URL carries after it.
RangeBase == "https://api.pwnedpasswords.com/range/"

SentPath(url) == SubSeq(url, Len(RangeBase) + 1, Len(url))

\* C1: check_breach makes one request to the range lookup and no more, and
\* what that request carries is exactly the first 5 characters of the
\* upper-case hex SHA-1 of the password: not the 35-character suffix, not the
\* full hash (neither occurs anywhere in the URL) and not the plaintext
\* password.  Two passwords whose hashes share the prefix send the same URL.
C1_OnlyPrefixSent ==
    LET sha1 == Upper(HexDigest(cb_password))
    IN  /\ Len(cb_sent) = (IF cb_pc = "idle" THEN 0 ELSE 1)
        /\ \A k \in 1..Len(cb_sent) :
              /\ SubSeq(cb_sent[k], 1, Len(RangeBase)) = RangeBase
              /\ Len(SentPath(cb_sent[k])) = 5
              /\ SentPath(cb_sent[k]) = SubSeq(sha1, 1, 5)
              /\ ~OccursIn(SubSeq(sha1, 6, 40), cb_sent[k])
              /\ ~OccursIn(sha1, cb_sent[k])
              /\ SentPath(cb_sent[k]) # cb_password

\* C1's case: the request for "blic" is out, and it is the very URL the
\* request for "password" is (the two hashes share the prefix 5BAA6).
C1_Witness ==
    /\ cb_pc = "lookup"
    /\ cb_password = "blic"
    /\ cb_sent = <<"https://api.pwnedpasswords.com/range/5BAA6">>

\* The entries of a range response as the service documents them: 35
\* characters of suffix, a colon, the count.
EntrySuffix(line) == SubSeq(line, 1, 35)

EntryCount(line) == ParseInt(SubSeq(line, 37, Len(line)))

\* C2: when the range lookup succeeds, check_breach returns the count of the
\* (first) returned entry whose suffix equals, case-sensitively, the 35
\* characters after the prefix of the password's hash, and 0 when no entry
\* has that suffix.
C2_CountOfMatchingSuffix ==
    cb_lookup.kind = "ok" =>
        LET suffix  == SubSeq(Upper(HexDigest(cb_password)), 6, 40)
            lines   == cb_lookup.lines
            matches == {k \in 1..Len(lines) : EntrySuffix(lines[k]) = suffix}
        IN  /\ cb_pc = "returned"
            /\ matches = {} => cb_result = 0
            /\ matches # {} =>
                 \E k \in matches :
                    /\ \A m \in matches : k <= m
                    /\ cb_result = EntryCount(lines[k])

\* C2's case: the response holds the suffix of "password" in lower case with
\* count 3 and then in upper case with count 10, and 10 is returned.
C2_Witness ==
    /\ cb_pc = "returned"
    /\ cb_password = "password"
    /\ cb_lookup.kind = "ok"
    /\ cb_lookup.lines = <<"1e4c9b93f3f0682250b6cf8331b7ee68fd8:3",
                           "1E4C9B93F3F0682250B6CF8331B7EE68FD8:10">>
    /\ cb_result = 10

\* C3: when the range lookup fails, check_breach ends with that failure
\* raised to its caller and returns nothing, whatever the body of the failed
\* response holds.
C3_LookupFailurePropagates ==
    cb_lookup.kind \in LookupFailures =>
        /\ cb_pc = "raised"
        /\ cb_pc # "returned"
        /\ cb_exc = cb_lookup.kind

\* C3's case: a non-success status whose body holds the password's suffix.
C3_Witness ==
    /\ cb_lookup.kind = "HTTPError"
    /\ cb_password = "password"
    /\ \E k \in 1..Len(cb_lookup.lines) :
          EntrySuffix(cb_lookup.lines[k]) = "1E4C9B93F3F0682250B6CF8331B7EE68FD8"
    /\ cb_pc = "raised"

(***************************************************************************)
(* The claims about check_email_breach (checked under SpecEmail).          *)
(***************************************************************************)
\* The shape local@domain.tld: one "@", no whitespace, something before the
\* "@", and after it a "." with something on both its sides.
WellFormedShape(email) ==
    LET n   == Len(email)
        ats == {i \in 1..n : Char(email, i) = "@"}
    IN  /\ Cardinality(ats) = 1
        /\ \A k \in 1..n : Char(email, k) \notin Whitespace
        /\ \A i \in ats :
              /\ i > 1
              /\ \E j \in (i + 2)..(n - 1) : Char(email, j) = "."

\* C4: an email that has not the shape local@domain.tld gets the report
\* exposed = false, breaches = [], sources_checked = [], one error, and no
\* source is queried.
C4_MalformedEmailRejected ==
    (em_pc # "idle" /\ ~WellFormedShape(em_email)) =>
        /\ em_pc = "returned"
        /\ em_calls = <<>>
        /\ em_report.exposed = FALSE
        /\ em_report.breaches = <<>>
        /\ em_report.sources_checked = <<>>
        /\ Len(em_report.errors) = 1

\* The names a report's breaches carry, lower-cased.
ReportKeys == [i \in 1..Len(em_report.breaches) |->
                 Lower(em_report.breaches[i].name)]

\* C5: no two entries of the returned breaches have names that are equal
\* after lower-casing.
C5_NoDuplicateNames ==
    em_pc = "returned" =>
        \A i, j \in 1..Len(ReportKeys) : i # j => ReportKeys[i] # ReportKeys[j]

\* What each source returned, as the claims count it: the names of a 200
\* answer of XposedOrNot, and the records of a LeakCheck answer with success
\* and a found-count above 0.
XonReturned ==
    IF em_xon.kind = "200" THEN XonFlatten(em_xon.raw) ELSE <<>>

LcReturned ==
    IF em_lc.kind = "200" /\ em_lc.body.success /\ em_lc.body.found > 0
    THEN em_lc.body.sources
    ELSE <<>>

\* C5's case: XposedOrNot returned Adobe and ADOBE, LeakCheck returned adobe
\* and Box, and the report holds two entries.
C5_Witness ==
    /\ em_pc = "returned"
    /\ XonReturned = <<JStr("Adobe"), JStr("ADOBE")>>
    /\ LcReturned = <<[name |-> JStr("adobe"), date |-> JNull],
                      [name |-> JStr("Box"), date |-> JStr("2012-07")]>>
    /\ Len(em_report.breaches) = 2

\* C6: when both sources succeed and both return a name that is the same
\* after lower-casing, the report holds one entry for it, and that entry is
\* LeakCheck's: source LeakCheck, with the name and the date of LeakCheck's
\* (last) record of that name.
C6_LeakCheckWins ==
    (em_pc = "returned" /\ em_report.sources_checked = <<"XposedOrNot", "LeakCheck">>) =>
        \A a \in 1..Len(XonReturned), b \in 1..Len(LcReturned) :
            (/\ LcReturned[b].name.t = "str"
             /\ Lower(XonReturned[a].v) = Lower(LcReturned[b].name.v)) =>
                LET key  == Lower(LcReturned[b].name.v)
                    hits == {i \in 1..Len(ReportKeys) : ReportKeys[i] = key}
                    same == {m \in 1..Len(LcReturned) :
                                /\ LcReturned[m].name.t = "str"
                                /\ Lower(LcReturned[m].name.v) = key}
                IN  /\ Cardinality(hits) = 1
                    /\ \A i \in hits : \E m \in same :
                          /\ \A m2 \in same : m2 <= m
                          /\ em_report.breaches[i] =
                                [name |-> LcReturned[m].name.v,
                                 date |-> LcReturned[m].date,
                                 source |-> "LeakCheck"]

\* C6's case: XposedOrNot returned ADOBE, LeakCheck adobe (no date) and then
\* Adobe (2013-10); the one entry is LeakCheck's Adobe of 2013-10.
C6_Witness ==
    /\ em_pc = "returned"
    /\ em_report.sources_checked = <<"XposedOrNot", "LeakCheck">>
    /\ XonReturned = <<JStr("ADOBE")>>
    /\ LcReturned = <<[name |-> JStr("adobe"), date |-> JNull],
                      [name |-> JStr("Adobe"), date |-> JStr("2013-10")]>>
    /\ em_report.breaches =
          <<[name |-> "Adobe", date |-> JStr("2013-10"), source |-> "LeakCheck"]>>

\* A source failed: its lookup failed, or an exception was raised while its
\* answer was read (a name that is null).
XonFailed ==
    \/ em_xon.kind \in SourceFailures
    \/ /\ em_xon.kind = "200"
       /\ \E k \in 1..Len(XonReturned) : XonReturned[k].t # "str"

LcFailed ==
    \/ em_lc.kind \in SourceFailures
    \/ \E k \in 1..Len(LcReturned) : LcReturned[k].name.t = "null"

\* err is tagged with the name of source.
Tagged(err, source) == SubSeq(err, 1, Len(source) + 1) = source \o ":"

\* C7: for a well-formed email, when one source fails and the other
\* succeeds, the report has one error, tagged with the failed source, one
\* entry in sources_checked, the other source, and exposed is true exactly
\* when the source that succeeded returned a breach.
C7_OneSourceFails ==
    (em_pc = "returned" /\ WellFormedShape(em_email) /\ XonFailed # LcFailed) =>
        LET failed == IF XonFailed THEN "XposedOrNot" ELSE "LeakCheck"
            good   == IF XonFailed THEN "LeakCheck" ELSE "XposedOrNot"
            found  == IF XonFailed THEN LcReturned # <<>> ELSE XonReturned # <<>>
        IN  /\ Len(em_report.errors) = 1
            /\ \A k \in 1..Len(em_report.errors) : Tagged(em_report.errors[k], failed)
            /\ em_report.sources_checked = <<good>>
            /\ em_report.exposed = found

\* C8: every returned report has exposed = (breaches is not empty).
C8_ExposedIffBreaches ==
    em_pc = "returned" => (em_report.exposed <=> Len(em_report.breaches) > 0)

\* C8's case: a report with two breaches, and exposed.
C8_Witness ==
    /\ em_pc = "returned"
    /\ Len(em_report.breaches) = 2
    /\ em_report.exposed

\* How often source is in sources_checked, and how many errors carry its tag.
TimesChecked(source) ==
    Cardinality({k \in 1..Len(em_report.sources_checked) :
                    em_report.sources_checked[k] = source})

TimesInErrors(source) ==
    Cardinality({k \in 1..Len(em_report.errors) :
                    Tagged(em_report.errors[k], source)})

\* C9: for a well-formed email the call returns a report in which each
\* source is once in sources_checked when it succeeded (a 404 of XposedOrNot
\* and a found-count of 0 of LeakCheck are successes) and once in errors
\* when it failed, and in nothing else; so the two lists hold two entries
\* together, both failing gives two errors and no breaches, and neither
\* failing gives no error.
C9_EachSourceOnce ==
    (em_pc = "returned" /\ WellFormedShape(em_email)) =>
        /\ TimesChecked("XposedOrNot") = (IF XonFailed THEN 0 ELSE 1)
        /\ TimesInErrors("XposedOrNot") = (IF XonFailed THEN 1 ELSE 0)
        /\ TimesChecked("LeakCheck") = (IF LcFailed THEN 0 ELSE 1)
        /\ TimesInErrors("LeakCheck") = (IF LcFailed THEN 1 ELSE 0)
        /\ Len(em_report.sources_checked) + Len(em_report.errors) = 2
        /\ (XonFailed /\ LcFailed) =>
              (Len(em_report.errors) = 2 /\ em_report.breaches = <<>>)
        /\ (~XonFailed /\ ~LcFailed) => em_report.errors = <<>>

\* The positions of source in a list of source names, and the positions of
\* the errors tagged with it in a list of errors.
PlacesOf(source, list) == {k \in 1..Len(list) : list[k] = source}

PlacesTagged(source, errors) ==
    {k \in 1..Len(errors) : Tagged(errors[k], source)}

\* C22: in a call on a well-formed email each source is queried exactly once
\* and never again; LeakCheck is queried whatever XposedOrNot's outcome
\* (success, not found, failure) and only once that outcome is applied to the
\* mapping; XposedOrNot comes before LeakCheck in sources_checked and in
\* errors.
C22_SourcesInOrder ==
    (em_pc # "idle" /\ WellFormedShape(em_email)) =>
        /\ em_pc = "xon" =>
              /\ em_calls = <<XonUrl(em_email)>>
              /\ em_xon.kind = "none" /\ em_lc.kind = "none"
              /\ em_breaches = <<>>
        /\ em_pc \in {"lc", "returned"} =>
              /\ em_calls = <<XonUrl(em_email), LcUrl(em_email)>>
              /\ em_xon.kind \in {"200", "404"} \cup SourceFailures
        /\ em_pc = "lc" =>
              /\ em_lc.kind = "none"
              /\ Cardinality(PlacesOf("XposedOrNot", em_sources_checked))
                    + Cardinality(PlacesTagged("XposedOrNot", em_errors)) = 1
              /\ \A k \in 1..Len(XonReturned) :
                    (\A m \in 1..k : XonReturned[m].t = "str") =>
                        HasKey(em_breaches, Lower(XonReturned[k].v))
        /\ em_pc = "returned" => em_lc.kind \in {"200"} \cup SourceFailures
        /\ \A a \in PlacesOf("XposedOrNot", em_sources_checked) :
              \A b \in PlacesOf("LeakCheck", em_sources_checked) : a < b
        /\ \A a \in PlacesTagged("XposedOrNot", em_errors) :
              \A b \in PlacesTagged("LeakCheck", em_errors) : a < b

\* C22's case: XposedOrNot failed, LeakCheck was queried all the same and
\* failed too; each was queried once and the errors are in that order.
C22_Witness ==
    /\ em_pc = "returned"
    /\ em_email = "u@e.co"
    /\ em_calls = <<XonUrl("u@e.co"), LcUrl("u@e.co")>>
    /\ em_report.errors = <<"XposedOrNot: Timeout", "LeakCheck: HTTPError">>

\* C28: in every returned report the source of every breach record is
\* listed in sources_checked (a source whose lookup ended in a recorded
\* error, also one raised while its records were applied, contributes no
\* record), so exposed = true implies that sources_checked is not empty.
C28_RecordsOfCheckedSources ==
    em_pc = "returned" =>
        /\ \A k \in 1..Len(em_report.breaches) :
              PlacesOf(em_report.breaches[k].source,
                       em_report.sources_checked) # {}
        /\ em_report.exposed => em_report.sources_checked # <<>>

(***************************************************************************)
(* The claims about score_strength (checked under SpecScore).              *)
(***************************************************************************)
\* The number of character classes the report says are present.
ReportedClasses ==
    Cardinality({c \in {"lowercase", "uppercase", "digits", "symbols"} :
                    ss_report.char_classes[c]})

\* C10: the score is the cascade over the unrounded entropy E (here in
\* millionths of a bit), the length L and the number C of classes present,
\* with high = (E >= 90): 0 if E < 28 or L < 8; else 1 if E < 36 or (not high
\* and C < 2); else 2 if E < 50 or (not high and C < 3); else 3 if E < 65 and
\* not high; else 4.
C10_ScoreCascade ==
    ss_pc = "returned" =>
        LET E    == Entropy(ss_password)
            L    == Len(ss_password)
            C    == ReportedClasses
            high == E >= 90000000
        IN  ss_report.score =
              (CASE E < 28000000 \/ L < 8 -> 0
                 [] E >= 28000000 /\ L >= 8
                      /\ (E < 36000000 \/ (~high /\ C < 2)) -> 1
                 [] E >= 36000000 /\ L >= 8 /\ (high \/ C >= 2)
                      /\ (E < 50000000 \/ (~high /\ C < 3)) -> 2
                 [] E >= 50000000 /\ L >= 8 /\ (high \/ C >= 3)
                      /\ E < 65000000 /\ ~high -> 3
                 [] OTHER -> 4)

\* C10's case: 18 symbols are exactly 90 bits, so high holds and the score is
\* 4 with one class (17 symbols would score 1).
C10_Witness ==
    /\ ss_pc = "returned"
    /\ ss_password = "!!!!!!!!!!!!!!!!!!"
    /\ ReportedClasses = 1
    /\ ss_report.entropy = 900
    /\ ss_report.score = 4

\* The keys of the report of score_strength.
ScoreReportKeys ==
    {"length", "entropy", "char_classes", "score", "label", "warnings"}

\* C11: score_strength is total: every call, also of the empty string and of
\* a string with non-ASCII characters, returns without raising a report with
\* all its keys, score in 0..4 and label the entry at index score of
\* [Very Weak, Weak, Fair, Strong, Very Strong].
C11_Total ==
    ss_pc # "idle" =>
        /\ ss_pc = "returned"
        /\ DOMAIN ss_report = ScoreReportKeys
        /\ ss_report.length = Len(ss_password)
        /\ ss_report.score \in 0..4
        /\ ss_report.label =
              <<"Very Weak", "Weak", "Fair", "Strong",
                "Very Strong">>[ss_report.score + 1]

\* C11's case: a password with a non-ASCII character that gets the last label.
C11_Witness ==
    /\ ss_pc = "returned"
    /\ OccursIn("é", ss_password)
    /\ ss_report.score = 4
    /\ ss_report.label = "Very Strong"

\* C12: the reported entropy is 0.0 exactly when the password is empty.
C12_ZeroEntropyIffEmpty ==
    ss_pc = "returned" => (ss_report.entropy = 0 <=> ss_password = "")

\* C12's case: the empty password, and its report.
C12_Witness ==
    /\ ss_pc = "returned"
    /\ ss_password = ""
    /\ ss_report.entropy = 0
    /\ ReportedClasses = 0

\* What score_strength reports for each password of ScorePasswords (for the
\* claims that compare two calls).
ReportOf == [p \in ScorePasswords |-> ScoreReport(p)]

\* The classes a report says are present.
ClassesIn(report) ==
    {c \in {"lowercase", "uppercase", "digits", "symbols"} :
        report.char_classes[c]}

\* C13: the reported entropy never decreases, and for a non-empty password
\* strictly increases, (1) when the length increases and the set of classes
\* present stays the same, (2) when the set of classes present grows to a
\* strict superset and the length stays the same.  (The call made is compared
\* with every other password of ScorePasswords.)
C13_EntropyMonotone ==
    ss_pc = "returned" =>
        \A q \in ScorePasswords :
            LET r      == ReportOf[q]
                longer == /\ r.length > ss_report.length
                          /\ ClassesIn(r) = ClassesIn(ss_report)
                richer == /\ r.length = ss_report.length
                          /\ ClassesIn(ss_report) \subseteq ClassesIn(r)
                          /\ ClassesIn(r) # ClassesIn(ss_report)
            IN  (longer \/ richer) =>
                    /\ r.entropy >= ss_report.entropy
                    /\ ss_password # "" => r.entropy > ss_report.entropy

\* C13's case: "qq" has a longer password of the same classes ("qqq") and a
\* password of the same length with one class more ("k7").
C13_Witness ==
    /\ ss_pc = "returned"
    /\ ss_password = "qq"
    /\ {"qqq", "k7"} \subseteq ScorePasswords
    /\ ClassesIn(ReportOf["qqq"]) = ClassesIn(ss_report)
    /\ ReportOf["qqq"].entropy > ss_report.entropy
    /\ ClassesIn(ReportOf["k7"]) = {"lowercase", "digits"}
    /\ ReportOf["k7"].entropy > ss_report.entropy

\* The 3-character windows of the entries of the Sequence Table.
SequenceWindows ==
    UNION {{SubSeq(e, i, i + 2) : i \in 1..(Len(e) - 2)} :
             e \in {"abcdefghijklmnopqrstuvwxyz", "0123456789", "qwertyuiop",
                    "asdfghjkl", "zxcvbnm"}}

\* The entries of the warnings that begin with the given words.
WarningsWith(words) ==
    {k \in 1..Len(ss_report.warnings) :
        /\ Len(ss_report.warnings[k]) >= Len(words)
        /\ SubSeq(ss_report.warnings[k], 1, Len(words)) = words}

\* C14: for a password of entropy below 90 bits, the warnings hold a
\* 'Sequential pattern detected' entry exactly when the lower-cased password
\* contains a 3-character window of a Sequence Table entry or the reverse of
\* one; the case of the letters does not matter.
C14_SequentialIffWindow ==
    (ss_pc = "returned"
        /\ (Entropy(ss_password) < 90000000 \/ ss_report.entropy < 900)) =>
        (WarningsWith("Sequential pattern detected") # {}
            <=> \E w \in SequenceWindows :
                    \/ OccursIn(w, Lower(ss_password))
                    \/ OccursIn(Reverse(w), Lower(ss_password)))

\* C14's case: a reversed keyboard run, partly in upper case.
C14_Witness ==
    /\ ss_pc = "returned"
    /\ ss_password = "k7k7Ytr"
    /\ ss_report.entropy < 900
    /\ ss_report.warnings[1] = "Sequential pattern detected ('rty')"

\* C15: the warnings hold exactly one 'Repeated characters detected' entry
\* when some character, whichever it is, occurs 3 or more times in a row in
\* the password, and none otherwise, whatever the entropy.
C15_RepeatedWarning ==
    ss_pc = "returned" =>
        Cardinality(WarningsWith("Repeated characters detected")) =
            (IF \E i \in 1..(Len(ss_password) - 2) :
                    /\ Char(ss_password, i + 1) = Char(ss_password, i)
                    /\ Char(ss_password, i + 2) = Char(ss_password, i)
             THEN 1 ELSE 0)

\* C16: the warnings hold 'Too short -- use at least 8 characters' exactly
\* when the length is below 8, 'Consider using 12+ characters' exactly when
\* it is 8 to 11, never both, and neither from 12 on.
C16_LengthWarnings ==
    ss_pc = "returned" =>
        LET L        == Len(ss_password)
            short    == WarningsWith("Too short -- use at least 8 characters")
            consider == WarningsWith("Consider using 12+ characters")
        IN  /\ short # {} <=> L < 8
            /\ consider # {} <=> (8 <= L /\ L < 12)
            /\ ~(short # {} /\ consider # {})
            /\ L >= 12 => (short = {} /\ consider = {})

\* C16's case: at 8 characters the warning changes.
C16_Witness ==
    /\ ss_pc = "returned"
    /\ Len(ss_password) = 8
    /\ WarningsWith("Consider using 12+ characters") # {}
    /\ WarningsWith("Too short") = {}

\* The entries of the Sequence Table, in its order.
SequenceTable ==
    <<"abcdefghijklmnopqrstuvwxyz", "0123456789", "qwertyuiop", "asdfghjkl",
      "zxcvbnm">>

\* The first 3-character window of entry e, in window order along e, that
\* occurs in the lower-cased password forwards or reversed ("" if none does).
FirstWindow(e) ==
    LET lower == Lower(ss_password)
        found == {i \in 1..(Len(e) - 2) :
                    \/ OccursIn(SubSeq(e, i, i + 2), lower)
                    \/ OccursIn(Reverse(SubSeq(e, i, i + 2)), lower)}
    IN  IF found = {} THEN ""
        ELSE SubSeq(e, CHOOSE i \in found : \A m \in found : i <= m,
                    (CHOOSE i \in found : \A m \in found : i <= m) + 2)

\* The Sequential warning that cites chunk.
Citing(chunk) == "Sequential pattern detected ('" \o chunk \o "')"

\* The entries of a list of warnings that are Sequential warnings, in order.
RECURSIVE SequentialIn(_)
SequentialIn(ws) ==
    IF ws = <<>> THEN <<>>
    ELSE (IF Len(Head(ws)) >= 27
             /\ SubSeq(Head(ws), 1, 27) = "Sequential pattern detected"
          THEN <<Head(ws)>> ELSE <<>>) \o SequentialIn(Tail(ws))

\* The warnings the Sequence Table entries from the k-th on give: one for
\* each entry that has a matching window, citing its first one.
RECURSIVE CitedFrom(_)
CitedFrom(k) ==
    IF k > Len(SequenceTable) THEN <<>>
    ELSE (IF FirstWindow(SequenceTable[k]) = "" THEN <<>>
          ELSE <<Citing(FirstWindow(SequenceTable[k]))>>) \o CitedFrom(k + 1)

\* C23: before deduplication there is at most one Sequential warning for
\* each Sequence Table entry (at most 5 in all), and it cites, in forward
\* form, the first window of that entry, in window order along the entry,
\* that matches forwards or reversed.  (When the pattern detection is made
\* at all, that is when some Sequential warning exists or the entropy is
\* below 90 bits.)
C23_OneWarningPerEntry ==
    ss_pc = "returned" =>
        /\ Len(SequentialIn(ss_warnings)) <= 5
        /\ (SequentialIn(ss_warnings) # <<>> \/ ss_report.entropy < 900) =>
              SequentialIn(ss_warnings) = CitedFrom(1)

\* C23's case: "jkl" comes first in the password and "Cba" matches reversed
\* and in upper case, but the alphabet's warning cites 'abc', its first
\* window; the fourth entry gives 'jkl'.
C23_Witness ==
    /\ ss_pc = "returned"
    /\ ss_password = "k7jklCba"
    /\ SequentialIn(ss_warnings) =
          <<"Sequential pattern detected ('abc')",
            "Sequential pattern detected ('jkl')">>

\* C24: a password of 90 bits of entropy or more gets no Sequential warning,
\* also when it contains a window of a Sequence Table entry or its reverse.
C24_NoSequentialWhenHigh ==
    (ss_pc = "returned"
        /\ (Entropy(ss_password) >= 90000000 \/ ss_report.entropy >= 900)) =>
        /\ SequentialIn(ss_report.warnings) = <<>>
        /\ SequentialIn(ss_warnings) = <<>>

\* C24's case: 59 characters of all four classes that end in "abc".
C24_Witness ==
    /\ ss_pc = "returned"
    /\ ss_report.entropy >= 900
    /\ Len(ss_password) = 59
    /\ SubSeq(ss_password, 57, 59) = "abc"
    /\ FirstWindow(SequenceTable[1]) = "abc"
    /\ SequentialIn(ss_report.warnings) = <<>>

\* The first Sequence Table entry that gives the warning w (0 if none does).
EntryGiving(w) ==
    LET es == {k \in 1..Len(SequenceTable) :
                  FirstWindow(SequenceTable[k]) # ""
                      /\ Citing(FirstWindow(SequenceTable[k])) = w}
    IN  IF es = {} THEN 0 ELSE CHOOSE k \in es : \A m \in es : k <= m

\* C25: the returned warnings never hold the same string twice (also when
\* two Sequence Table entries give the same chunk), and their order is that
\* of first occurrence: the Sequential warnings in Sequence Table order, then
\* the Repeated warning, then the length warning.
C25_DedupedInOrder ==
    ss_pc = "returned" =>
        LET ws   == ss_report.warnings
            seqs == {k \in 1..Len(ws) : SequentialIn(<<ws[k]>>) # <<>>}
            reps == WarningsWith("Repeated characters detected")
            lens == WarningsWith("Too short") \cup WarningsWith("Consider using")
        IN  /\ \A a, b \in 1..Len(ws) : a # b => ws[a] # ws[b]
            /\ {ws[k] : k \in 1..Len(ws)}
                  = {ss_warnings[k] : k \in 1..Len(ss_warnings)}
            /\ seqs \cup reps \cup lens = 1..Len(ws)
            /\ \A a \in seqs : \A b \in reps \cup lens : a < b
            /\ \A a \in reps : \A b \in lens : a < b
            /\ \A a \in seqs : EntryGiving(ws[a]) > 0
            /\ \A a, b \in seqs :
                  a < b => EntryGiving(ws[a]) < EntryGiving(ws[b])

\* C25's case: 'fgh' is the first window of the alphabet and of "asdfghjkl"
\* that matches, so the warning is appended twice and returned once, before
\* the Repeated and the length warning.
C25_Witness ==
    /\ ss_pc = "returned"
    /\ ss_password = "qqqfgh"
    /\ Len(ss_warnings) = 4
    /\ ss_warnings[1] = ss_warnings[2]
    /\ ss_report.warnings =
          <<"Sequential pattern detected ('fgh')",
            "Repeated characters detected (e.g. 'aaa')",
            "Too short -- use at least 8 characters">>

\* p is the beginning of q.
IsPrefix(p, q) == Len(p) <= Len(q) /\ SubSeq(q, 1, Len(p)) = p

\* C29: appending characters to a password never lowers its score.  (The
\* call made is compared with every password of ScorePasswords it is the
\* beginning of.)
C29_AppendingKeepsScore ==
    ss_pc = "returned" =>
        \A q \in ScorePasswords :
            IsPrefix(ss_password, q) => ReportOf[q].score >= ss_report.score

\* C29's case: 17 symbols score 1 (85 bits, one class); with "abc" appended
\* the password scores 4.
C29_Witness ==
    /\ ss_pc = "returned"
    /\ ss_password = "!!!!!!!!!!!!!!!!!"
    /\ ss_report.score = 1
    /\ "!!!!!!!!!!!!!!!!!abc" \in ScorePasswords
    /\ ReportOf["!!!!!!!!!!!!!!!!!abc"].score = 4

\* C30: every password of 90 bits of entropy or more gets score 4, whatever
\* its number of classes; such a password has at least 8 characters.
C30_HighEntropyScores4 ==
    (ss_pc = "returned"
        /\ (Entropy(ss_password) >= 90000000 \/ ss_report.entropy >= 900)) =>
        /\ ss_report.score = 4
        /\ Len(ss_password) >= 8

\* C30's case: 28 digits (93 bits) are of one class and score 4.
C30_Witness ==
    /\ ss_pc = "returned"
    /\ ss_password = "7777777777777777777777777777"
    /\ ReportedClasses = 1
    /\ ss_report.entropy = 930
    /\ ss_report.score = 4

(***************************************************************************)
(* The claims about generate_password (checked under SpecGen).             *)
(***************************************************************************)
\* The characters of the returned password.
ResultChars == {Char(gp_result, k) : k \in 1..Len(gp_result)}

\* C17: for every length L >= 4 and every combination of the flags the call
\* returns a string of exactly L characters; for every L < 4 it fails with
\* the invalid-argument error (ValueError) before any random value is drawn.
C17_LengthOrRejection ==
    /\ gp_pc = "returned" => Len(gp_result) = gp_args.length
    /\ (gp_pc # "idle" /\ gp_args.length >= 4) =>
            (gp_pc \in {"shuffle", "returned"} /\ gp_exc = "none")
    /\ (gp_pc # "idle" /\ gp_args.length < 4) =>
            /\ gp_pc = "raised"
            /\ SubSeq(gp_exc, 1, 10) = "ValueError"
            /\ gp_draws = 0
    /\ gp_pc = "shuffle" => (ENABLED ShuffleStep \/ ENABLED GenerateReturns)

\* C17's case: a call for 5 characters with one flag off has returned.
C17_Witness ==
    /\ gp_pc = "returned"
    /\ gp_args.length = 5
    /\ ~gp_args.digits /\ gp_args.uppercase /\ gp_args.symbols
    /\ Len(gp_result) = 5
    /\ gp_draws = 9

\* C18: called with no arguments, generate_password returns a password of
\* length 16.
C18_DefaultLength16 ==
    (gp_pc = "returned" /\ gp_args.noargs) => Len(gp_result) = 16

\* C19: whatever the draws, the returned password holds at least one
\* lowercase letter and at least one character of each enabled optional class
\* (uppercase, digits, symbols).
C19_EveryEnabledClass ==
    gp_pc = "returned" =>
        /\ ResultChars \cap LowerSet # {}
        /\ gp_args.uppercase => ResultChars \cap UpperSet # {}
        /\ gp_args.digits => ResultChars \cap DigitSet # {}
        /\ gp_args.symbols =>
              ResultChars \ (LowerSet \cup UpperSet \cup DigitSet) # {}

\* C19's case: four characters, every class enabled, the required characters
\* shuffled into another order.
C19_Witness ==
    /\ gp_pc = "returned"
    /\ gp_args.length = 4
    /\ gp_args.uppercase /\ gp_args.digits /\ gp_args.symbols
    /\ gp_required = <<"z", "A", "5", "~">>
    /\ gp_result = "~5Az"

\* C20: whatever the draws, the returned password holds no character of a
\* disabled class: no uppercase letter when uppercase is off, no digit when
\* digits is off, only letters and digits when symbols is off.
C20_NoDisabledClass ==
    gp_pc = "returned" =>
        /\ ~gp_args.uppercase => ResultChars \cap UpperSet = {}
        /\ ~gp_args.digits => ResultChars \cap DigitSet = {}
        /\ ~gp_args.symbols =>
              ResultChars \subseteq (LowerSet \cup UpperSet \cup DigitSet)

\* C20's case: uppercase and symbols off, and the fill drew from the other
\* end of the alphabet (a digit).
C20_Witness ==
    /\ gp_pc = "returned"
    /\ gp_args.length = 5
    /\ ~gp_args.uppercase /\ gp_args.digits /\ ~gp_args.symbols
    /\ gp_required = <<"a", "0">>
    /\ gp_result = "99a09"

\* How many of the optional classes the call enables.
EnabledClasses ==
    Cardinality({c \in {"uppercase", "digits", "symbols"} : gp_args[c]})

\* C27: in every call that is accepted (length >= 4, any flags) the number of
\* required characters is 1 + the number of enabled optional classes and at
\* most the length, so the fill count length - required_count is never
\* negative and the result is never short of characters.
C27_RequiredFitsLength ==
    gp_pc \in {"shuffle", "returned"} =>
        /\ gp_args.length >= 4
        /\ Len(gp_required) = 1 + EnabledClasses
        /\ Len(gp_required) <= gp_args.length
        /\ gp_args.length - Len(gp_required) >= 0
        /\ Len(gp_chars) = gp_args.length
        /\ SubSeq(gp_chars, 1, Len(gp_required)) = gp_required
              \/ gp_i < Len(gp_chars) - 1
        /\ gp_draws >= gp_args.length
        /\ gp_pc = "returned" => Len(gp_result) >= gp_args.length

\* C27's case: 4 characters with every class enabled: the required characters
\* take the whole length and the fill is empty.
C27_Witness ==
    /\ gp_pc = "shuffle"
    /\ gp_args.length = 4
    /\ EnabledClasses = 3
    /\ gp_i = 3
    /\ gp_draws = 4
    /\ gp_chars = gp_required

\* How many times each character is in a list.
CountsOf(chars) ==
    [c \in {chars[k] : k \in 1..Len(chars)} |->
        Cardinality({k \in 1..Len(chars) : chars[k] = c})]

\* n!
RECURSIVE Factorial(_)
Factorial(n) == IF n <= 1 THEN 1 ELSE n * Factorial(n - 1)

\* The sequences of draws the shuffle of n positions can make: the draw of
\* the turn with index i is in the range the code draws from.
DrawSequences(n) ==
    {js \in [1..(n - 1) -> 0..n] :
        \A k \in 1..(n - 1) : js[k] \in Randbelow(ShuffleRange(n - k), n)}

\* The orderings of the positions 1..n the shuffle produces, one for each
\* sequence of draws (a set: two sequences that give the same ordering give
\* one element), for each n up to MaxGenLength.
ShuffleOrderings ==
    [n \in 1..MaxGenLength |->
        {ShuffleFrom([k \in 1..n |-> k], n - 1, js) : js \in DrawSequences(n)}]

\* The orderings of the positions 1..n.
OrderingsOf(n) ==
    {f \in [1..n -> 1..n] : \A a, b \in 1..n : a # b => f[a] # f[b]}

\* For each n up to MaxGenLength there are n! sequences of draws and they
\* produce n! orderings, every ordering of the positions 1..n: each ordering
\* comes from exactly one sequence.
EveryOrderingOnce ==
    \A n \in 1..MaxGenLength :
        /\ Cardinality(DrawSequences(n)) = Factorial(n)
        /\ Cardinality(ShuffleOrderings[n]) = Factorial(n)
        /\ ShuffleOrderings[n] = OrderingsOf(n)

\* One turn of the loop swaps position i with a position j in 0..i and
\* lowers i by one; the loop starts at the last index and ends after i = 1.
ShuffleTurns ==
    /\ (gp_pc = "idle" /\ gp_pc' = "shuffle") => gp_i' = Len(gp_chars') - 1
    /\ (gp_pc = "shuffle" /\ gp_pc' = "shuffle") =>
          /\ gp_i >= 1
          /\ gp_i' = gp_i - 1
          /\ \E j \in 0..gp_i :
                gp_chars' = [k \in 1..Len(gp_chars) |->
                                IF k = gp_i + 1 THEN gp_chars[j + 1]
                                ELSE IF k = j + 1 THEN gp_chars[gp_i + 1]
                                ELSE gp_chars[k]]
          /\ CountsOf(gp_chars') = CountsOf(gp_chars)
          /\ Len(gp_chars') = Len(gp_chars)
    /\ (gp_pc = "shuffle" /\ gp_pc' = "returned") =>
          /\ gp_i = 0
          /\ gp_chars' = gp_chars
          /\ Len(gp_result') = Len(gp_chars)
          /\ \A k \in 1..Len(gp_chars) : Char(gp_result', k) = gp_chars[k]

\* C26: the shuffle is a permutation of the list of characters (each turn
\* keeps how many times every character is in it, hence the length); i runs
\* from the last index down to 1 and position i is swapped with a position j
\* in 0..i; and over all sequences of draws each of the n! orderings of n
\* distinct positions comes from exactly one sequence (there are n!
\* sequences and n! orderings produced, for n up to MaxGenLength).
C26_ShuffleIsFisherYates ==
    /\ []EveryOrderingOnce
    /\ [][ShuffleTurns]_vars

\* C26's case: four different characters returned in another order.
C26_Witness ==
    /\ gp_pc = "returned"
    /\ gp_required = <<"a", "Z", "9", "!">>
    /\ gp_chars = <<"9", "!", "a", "Z">>
    /\ gp_result = "9!aZ"
    /\ gp_draws = 7

(***************************************************************************)
(* The claim about the command line (checked under SpecCli).               *)
(***************************************************************************)
\* check_breach and check_email_breach as single values agree with their
\* step-by-step models: what a call returned or raised under SpecBreach and
\* SpecEmail is what CheckBreach and CheckEmailBreach give.
CheckBreachAgrees ==
    cb_pc \in {"returned", "raised"} =>
        LET o == CheckBreach(cb_password, cb_lookup)
        IN  /\ (o.kind = "return") = (cb_pc = "returned")
            /\ o.value = cb_result
            /\ o.exc = cb_exc

CheckEmailBreachAgrees ==
    em_pc = "returned" =>
        em_report = CheckEmailBreach(em_email, em_xon, em_lc)

\* No password was supplied: no positional argument, and no line of the file
\* that is not blank.
NoPasswordSupplied ==
    /\ cli_args.passwords = <<>>
    /\ \A i \in 1..Len(cli_args.file.lines) :
          Strip(cli_args.file.lines[i]) = ""

\* The check command returns 1 when some password has a non-zero breach count
\* or no password was supplied, and 0 otherwise.
CheckExitCode ==
    (cli_pc = "returned" /\ cli_args.command = "check") =>
        cli_code = IF \/ NoPasswordSupplied
                      \/ \E i \in 1..Len(cli_counts) : cli_counts[i] # 0
                   THEN 1 ELSE 0

\* C21: the check command returns 1 when some password has a non-zero breach
\* count or no password was supplied, the email command returns 1 when some
\* email's report has exposed = true, and each returns 0 otherwise.
C21_ExitCodes ==
    /\ CheckExitCode
    /\ (cli_pc = "returned" /\ cli_args.command = "email") =>
          cli_code = IF \E i \in 1..Len(cli_exposed) : cli_exposed[i]
                     THEN 1 ELSE 0

\* The email command returned 0 after a report with exposed = true: the
\* report has errors and no source checked, so the loop skipped it.
C21_SkippedExposure ==
    /\ cli_pc = "returned"
    /\ cli_args.emails = <<"u@e.co">>
    /\ cli_result.exposed
    /\ Skipped(cli_result)
    /\ cli_code = 0

=============================================================================
